---- MODULE Spec2Model ----
(***************************************************************************)
(* Model of the ai_therapist tool functions (src/tools), the journal       *)
(* analysis pipeline (src/agents/sequential_agent.py) and the root agent   *)
(* topology (src/agents/root_agent.py).                                    *)
(*                                                                         *)
(* tool_context.state is the dictionary `state`: a function whose DOMAIN   *)
(* is the set of keys present.  Strings the tools only copy (titles,       *)
(* values, responses) are atomic; the trigger of save_therapeutic_pattern  *)
(* is a sequence of characters because the code rewrites it.  A tool's     *)
(* returned string is the record `ret`, one field per interpolated part.   *)
(* The datetime.now() stamps (created_at, approved_at, updated_at) are     *)
(* wall-clock inputs that no claim reads; they are left out of the items.  *)
(***************************************************************************)
EXTENDS Integers, Sequences, FiniteSets, TLC

VARIABLES
    state,        \* tool_context.state: key -> value, DOMAIN = keys present
    call,         \* the tool invocation that ran last: <<tool, user_id, args>>
    ret,          \* what that invocation returned
    created_log,  \* history: the create_task calls completed so far, in order
    pc,           \* SpecRace: per user, the position inside create_task / schedule_reminder
    local,        \* SpecRace: per user, the invocation's local variables
    pipe,         \* the journal pipeline's run: caller, stage index, phase
    events,       \* history: stage start / end events of the current pipeline run
    active,       \* SpecRoot: the agent handling the current turn ("none" between turns)
    turn,         \* SpecRoot: caller, turns and tool calls used
    llm,          \* SpecRetry: the request to the external model and its attempts
    seen          \* SpecIsolation, history: one earlier tool call of u2, kept for comparison

vars == <<state, call, ret, created_log, pc, local, pipe, events, active, turn, llm, seen>>

(***************************** bounds and inputs ***************************)
MaxTasks == 3
MaxReminders == 2
MaxGoals == 2
\* SpecStore: tasks, reminders and goals held together
MaxItems == 4
\* per user: entries of memory["history"], of memory["interests"], and therapeutic responses
MaxHistory == 2
MaxPatterns == 2
\* pipeline runs, and the tool calls the model makes within one stage
MaxRuns == 2
MaxStageCalls == 2
\* SpecRoot: inbound messages, and the tool calls made within one turn
MaxTurns == 2
MaxTurnCalls == 1
\* SpecRetry: requests to the external model
MaxModelCalls == 3
\* SpecIsolation: tasks, reminders and goals in the store, taken together
MaxShared == 1

Users == {"u1", "u2"}

\* <<title, due_date, priority>>; the second leaves due_date and priority at their defaults
TaskInputs == {<<"t1", "2026-01-01", "high">>, <<"t2", "", "medium">>}
\* <<title, date, time>>
ReminderInputs == {<<"r1", "2026-01-02", "09:00">>}
\* <<title, goal_description, routine, frequency, duration, start_date>>
GoalInputs == {<<"g1", "desc", "routine", "daily", "30 days", "2026-01-01">>}
\* goal ids a caller may name: every id in use and one that is not
GoalIds == 1..(MaxGoals + 1)
\* the documented statuses; the inputs tried: two of them and one outside them
GoalStatuses == {"pending_approval", "active", "completed", "paused", "cancelled"}
StatusInputs == {"active", "completed", "archived"}

\* save_therapeutic_pattern's trigger, as characters: "St", " sT ", "st", "o k"
Triggers == {<<"S", "t">>, <<" ", "s", "T", " ">>, <<"s", "t">>, <<"o", " ", "k">>}
\* save_to_memory's value
Values == {"v1", "v2"}

(******************************* dictionary ********************************)
EmptyDict == [k \in {} |-> TRUE]

Has(d, k) == k \in DOMAIN d

Put(d, k, v) == [x \in (DOMAIN d) \cup {k} |-> IF x = k THEN v ELSE d[x]]

\* the variant starts the list afresh on every call
InitList_Reset(d, k) == Put(d, k, << >>)

\* `if key not in state: state[key] = []`
InitList(d, k) == IF Has(d, k) THEN d ELSE Put(d, k, << >>)

\* the list under k, empty when the key is absent (used by guards and claims only)
ListOf(d, k) == IF Has(d, k) THEN d[k] ELSE << >>

NoCall == <<"none", "none", << >> >>
NoRet == [msg |-> "none"]

(* A tool action says what the call does to the store, `call` and `ret`.    *)
(* Who called it (a user directly, or an agent during a turn) is the rest   *)
(* of the step: AgentsIdle for a direct call.                               *)
AgentsIdle == UNCHANGED <<pipe, events, active, turn, llm, seen>>

(******************************* task_tools ********************************)
\* the buggy variants used to test the claims' formulas
NextId_NoPlusOne(items) == Len(items)

NextId(items) == Len(items) + 1

OwnedBy_NoFilter(items, user_id) == items

OwnedBy(items, user_id) == SelectSeq(items, LAMBDA t : t.user_id = user_id)

TaskLine(t) ==
    [title |-> t.title, priority |-> t.priority,
     due_info |-> IF t.due_date # "" THEN t.due_date ELSE "none"]

ReminderLine(r) == [title |-> r.title, date |-> r.date, time |-> r.time]

TaskLines(items) == [i \in 1..Len(items) |-> TaskLine(items[i])]

ReminderLines(items) == [i \in 1..Len(items) |-> ReminderLine(items[i])]

create_task(user_id, title, due_date, priority) ==
    /\ Len(ListOf(state, "tasks")) < MaxTasks
    /\ LET s1 == InitList(state, "tasks")
           task == [id |-> NextId(s1["tasks"]), user_id |-> user_id, title |-> title,
                    due_date |-> due_date, priority |-> priority, completed |-> FALSE]
       IN /\ state' = Put(s1, "tasks", Append(s1["tasks"], task))
          /\ created_log' = Append(created_log,
                 [user_id |-> user_id, title |-> title, due_date |-> due_date,
                  priority |-> priority])
    /\ call' = <<"create_task", user_id, <<title, due_date, priority>> >>
    /\ ret' = [msg |-> "task_created", title |-> title,
               due |-> IF due_date # "" THEN due_date ELSE "none"]
    /\ UNCHANGED <<pc, local>>

get_tasks(user_id) ==
    /\ LET s1 == InitList(state, "tasks")
           user_tasks == OwnedBy(s1["tasks"], user_id)
       IN /\ state' = s1
          /\ ret' = IF user_tasks = << >>
                    THEN [msg |-> "no_tasks"]
                    ELSE [msg |-> "tasks", count |-> Len(user_tasks),
                          lines |-> TaskLines(user_tasks)]
    /\ call' = <<"get_tasks", user_id, << >> >>
    /\ UNCHANGED <<created_log, pc, local>>

schedule_reminder(user_id, title, date, time) ==
    /\ Len(ListOf(state, "reminders")) < MaxReminders
    /\ LET s1 == InitList(state, "reminders")
           reminder == [id |-> NextId(s1["reminders"]), user_id |-> user_id,
                        title |-> title, date |-> date, time |-> time]
       IN state' = Put(s1, "reminders", Append(s1["reminders"], reminder))
    /\ call' = <<"schedule_reminder", user_id, <<title, date, time>> >>
    /\ ret' = [msg |-> "reminder_set", title |-> title, date |-> date, time |-> time]
    /\ UNCHANGED <<created_log, pc, local>>

get_reminders(user_id) ==
    /\ LET s1 == InitList(state, "reminders")
           user_reminders == OwnedBy(s1["reminders"], user_id)
       IN /\ state' = s1
          /\ ret' = IF user_reminders = << >>
                    THEN [msg |-> "no_reminders"]
                    ELSE [msg |-> "reminders", count |-> Len(user_reminders),
                          lines |-> ReminderLines(user_reminders)]
    /\ call' = <<"get_reminders", user_id, << >> >>
    /\ UNCHANGED <<created_log, pc, local>>

get_all_items(user_id) ==
    /\ LET s1 == InitList(state, "tasks")
           s2 == InitList(s1, "reminders")
           user_tasks == OwnedBy(s2["tasks"], user_id)
           user_reminders == OwnedBy(s2["reminders"], user_id)
       IN /\ state' = s2
          /\ ret' = IF user_tasks = << >> /\ user_reminders = << >>
                    THEN [msg |-> "no_items"]
                    ELSE [msg |-> "items",
                          task_count |-> Len(user_tasks),
                          task_lines |-> TaskLines(user_tasks),
                          reminder_count |-> Len(user_reminders),
                          reminder_lines |-> ReminderLines(user_reminders)]
    /\ call' = <<"get_all_items", user_id, << >> >>
    /\ UNCHANGED <<created_log, pc, local>>

(******************************* goal_tools ********************************)
create_goal_with_routine(user_id, title, goal_description, routine, frequency, duration, start_date) ==
    /\ Len(ListOf(state, "goals")) < MaxGoals
    /\ LET s1 == InitList(state, "goals")
           goal_id == NextId(s1["goals"])
           goal == [id |-> goal_id, user_id |-> user_id, title |-> title,
                    description |-> goal_description, routine |-> routine,
                    frequency |-> frequency, duration |-> duration,
                    start_date |-> start_date, status |-> "pending_approval",
                    approved |-> FALSE]
       IN /\ state' = Put(s1, "goals", Append(s1["goals"], goal))
          /\ ret' = [msg |-> "goal_created", goal_id |-> goal_id, title |-> title]
    /\ call' = <<"create_goal_with_routine", user_id, <<title>> >>
    /\ UNCHANGED <<created_log, pc, local>>

\* `goal.get('id') == goal_id and goal.get('user_id') == user_id`
GoalMatches_AnyOwner(goal, goal_id, user_id) == goal.id = goal_id

GoalMatches(goal, goal_id, user_id) == goal.id = goal_id /\ goal.user_id = user_id

\* the `for goal in goals: if ...: break` loop: the first match's index, 0 when none
FindGoal(goals, goal_id, user_id) ==
    LET hits == {i \in 1..Len(goals) : GoalMatches(goals[i], goal_id, user_id)}
    IN IF hits = {} THEN 0 ELSE CHOOSE i \in hits : \A j \in hits : i <= j

\* approve_goal's loop condition; the variant skips goals that are no longer pending
ApproveTarget_PendingOnly(goals, goal_id, user_id) ==
    LET hits == {i \in 1..Len(goals) : /\ GoalMatches(goals[i], goal_id, user_id)
                                        /\ goals[i].status = "pending_approval"}
    IN IF hits = {} THEN 0 ELSE CHOOSE i \in hits : \A j \in hits : i <= j

ApproveTarget(goals, goal_id, user_id) == FindGoal(goals, goal_id, user_id)

\* the loop body of approve_goal

Approved(goal) == [goal EXCEPT !.approved = TRUE, !.status = "active"]

approve_goal(user_id, goal_id) ==
    /\ IF ~Has(state, "goals")
       THEN /\ ret' = [msg |-> "no_goals_to_approve"]
            /\ state' = state
       ELSE LET goals == state["goals"]
                i == ApproveTarget(goals, goal_id, user_id)
            IN IF i = 0
               THEN /\ ret' = [msg |-> "goal_not_found", goal_id |-> goal_id]
                    /\ state' = state
               ELSE /\ state' = Put(state, "goals", [goals EXCEPT ![i] = Approved(goals[i])])
                    /\ ret' = [msg |-> "goal_now_active", title |-> goals[i].title]
    /\ call' = <<"approve_goal", user_id, <<goal_id>> >>
    /\ UNCHANGED <<created_log, pc, local>>

\* the variant reads the status field instead of the approved flag
StatusText_FromStatus(goal, pending) == IF goal.status = "active" THEN "Active" ELSE pending

StatusText(goal, pending) == IF goal.approved THEN "Active" ELSE pending

get_goal(user_id, goal_id) ==
    /\ IF ~Has(state, "goals")
       THEN ret' = [msg |-> "no_goals"]
       ELSE LET goals == state["goals"]
                i == FindGoal(goals, goal_id, user_id)
            IN IF i = 0
               THEN ret' = [msg |-> "goal_not_found", goal_id |-> goal_id]
               ELSE ret' = [msg |-> "goal", goal_id |-> goal_id, title |-> goals[i].title,
                            status_text |-> StatusText(goals[i], "Pending Approval"),
                            description |-> goals[i].description,
                            routine |-> goals[i].routine,
                            frequency |-> goals[i].frequency,
                            duration |-> goals[i].duration,
                            start_date |-> goals[i].start_date]
    /\ call' = <<"get_goal", user_id, <<goal_id>> >>
    /\ UNCHANGED <<state, created_log, pc, local>>

GoalLine(g) ==
    [goal_id |-> g.id, title |-> g.title, status_text |-> StatusText(g, "Pending"),
     description |-> g.description, frequency |-> g.frequency,
     start_date |-> g.start_date]

GoalLines(items) == [i \in 1..Len(items) |-> GoalLine(items[i])]

list_goals(user_id) ==
    /\ LET user_goals == OwnedBy(ListOf(state, "goals"), user_id)
       IN ret' = IF ~Has(state, "goals") \/ user_goals = << >>
                 THEN [msg |-> "no_goals_yet"]
                 ELSE [msg |-> "goals", count |-> Len(user_goals),
                       lines |-> GoalLines(user_goals)]
    /\ call' = <<"list_goals", user_id, << >> >>
    /\ UNCHANGED <<state, created_log, pc, local>>

\* the loop body of update_goal_status
StatusSet_NeedsApproval(goal, status) ==
    IF goal.approved THEN [goal EXCEPT !.status = status] ELSE goal

\* the variant treats a status of active as an approval
StatusSet_ActiveApproves(goal, status) ==
    IF status = "active" THEN [goal EXCEPT !.status = status, !.approved = TRUE]
    ELSE [goal EXCEPT !.status = status]

StatusSet(goal, status) == [goal EXCEPT !.status = status]

\* status_messages.get(status, generic)
StatusMessage(status, title) ==
    IF status \in {"completed", "paused", "cancelled", "active"}
    THEN [msg |-> "goal_" \o status, title |-> title]
    ELSE [msg |-> "goal_status_updated", status |-> status]

update_goal_status(user_id, goal_id, status) ==
    /\ IF ~Has(state, "goals")
       THEN /\ ret' = [msg |-> "no_goals"]
            /\ state' = state
       ELSE LET goals == state["goals"]
                i == FindGoal(goals, goal_id, user_id)
            IN IF i = 0
               THEN /\ ret' = [msg |-> "goal_not_found", goal_id |-> goal_id]
                    /\ state' = state
               ELSE /\ state' = Put(state, "goals",
                                    [goals EXCEPT ![i] = StatusSet(goals[i], status)])
                    /\ ret' = StatusMessage(status, goals[i].title)
    /\ call' = <<"update_goal_status", user_id, <<goal_id, status>> >>
    /\ UNCHANGED <<created_log, pc, local>>

(****************************** memory_tools *******************************)
(* A memory is a dict whose top-level values the code may replace by a      *)
(* string (`memory[key] = value`), so each carries its Python type, with    *)
(* the value in the field of that type.                                     *)
Dict(d) == [t |-> "dict", d |-> d]
List(l) == [t |-> "list", l |-> l]
Str(x) == [t |-> "str", s |-> x]

DefaultMemory ==
    [k \in {"personal_details", "preferences", "therapeutic_patterns", "history", "interests"} |->
        CASE k = "personal_details" -> Dict(EmptyDict)
          [] k = "preferences" -> Dict(EmptyDict)
          [] k = "therapeutic_patterns" ->
                Dict([triggers |-> EmptyDict, preferred_styles |-> << >>,
                      avoided_styles |-> << >>])
          [] k = "history" -> List(<< >>)
          [] k = "interests" -> List(<< >>)]

\* the variant hands out a fresh default memory on every call
WithMemory_Fresh(s, user_id) ==
    LET s1 == IF Has(s, "user_memories") THEN s ELSE Put(s, "user_memories", EmptyDict)
    IN Put(s1, "user_memories", Put(s1["user_memories"], user_id, DefaultMemory))

\* `if 'user_memories' not in state: ...; if user_id not in state['user_memories']: ...`
WithMemory(s, user_id) ==
    LET s1 == IF Has(s, "user_memories") THEN s ELSE Put(s, "user_memories", EmptyDict)
    IN IF Has(s1["user_memories"], user_id)
       THEN s1
       ELSE Put(s1, "user_memories", Put(s1["user_memories"], user_id, DefaultMemory))

\* a user's memory, the default one when none is stored (used by guards and claims only)
MemoryOf(s, user_id) == WithMemory(s, user_id)["user_memories"][user_id]

\* the variant stores the memory for every user that has one
PutMemory_Everyone(s, user_id, memory) ==
    Put(s, "user_memories",
        [u \in (DOMAIN s["user_memories"]) \cup {user_id} |-> memory])

PutMemory(s, user_id, memory) ==
    Put(s, "user_memories", Put(s["user_memories"], user_id, memory))

Raised(error) == [msg |-> "raised", error |-> error]

load_memory(user_id) ==
    /\ LET s1 == WithMemory(state, user_id)
       IN /\ state' = s1
          /\ ret' = [msg |-> "dict", user_id |-> user_id,
                     memory |-> s1["user_memories"][user_id]]
    /\ call' = <<"load_memory", user_id, << >> >>
    /\ UNCHANGED <<created_log, pc, local>>

\* the variant has a branch for journal entries that appends them to history
Saved_JournalToHistory(memory, key, value) ==
    CASE key = "name" ->
            IF memory["personal_details"].t = "dict"
            THEN Put(memory, "personal_details",
                     Dict(Put(memory["personal_details"].d, "name", value)))
            ELSE Raised("TypeError")
      [] key = "interests" ->
            Put(memory, "interests", List(Append(memory["interests"].l, value)))
      [] key = "preferences" ->
            Put(memory, "preferences", Dict(Put(memory["preferences"].d, "general", value)))
      [] key \in {"history", "journal_entry"} ->
            Put(memory, "history", List(Append(memory["history"].l, value)))
      [] OTHER -> Put(memory, key, Str(value))

\* the if / elif chain of save_to_memory: the memory after it, or the error raised
Saved(memory, key, value) ==
    CASE key = "name" ->
            IF memory["personal_details"].t = "dict"
            THEN Put(memory, "personal_details",
                     Dict(Put(memory["personal_details"].d, "name", value)))
            ELSE Raised("TypeError")
      [] key = "interests" ->
            Put(memory, "interests", List(Append(memory["interests"].l, value)))
      [] key = "preferences" ->
            Put(memory, "preferences", Dict(Put(memory["preferences"].d, "general", value)))
      [] key = "history" ->
            Put(memory, "history", List(Append(memory["history"].l, value)))
      [] OTHER -> Put(memory, key, Str(value))

IsRaised(x) == DOMAIN x = {"msg", "error"}

save_to_memory(user_id, key, value) ==
    /\ key \in {"interests", "history"} =>
          Len(MemoryOf(state, user_id)[key].l) < MaxHistory
    /\ LET s1 == WithMemory(state, user_id)
           out == Saved(s1["user_memories"][user_id], key, value)
       IN IF IsRaised(out)
          THEN /\ state' = s1
               /\ ret' = out
          ELSE /\ state' = PutMemory(s1, user_id, out)
               /\ ret' = [msg |-> "saved", key |-> key]
    /\ call' = <<"save_to_memory", user_id, <<key, value>> >>
    /\ UNCHANGED <<created_log, pc, local>>

\* str.lower() and str.strip() on the characters the triggers use
LowerChar(c) == CASE c = "S" -> "s" [] c = "T" -> "t" [] OTHER -> c

Whitespace == {" "}

lower(str) == [i \in 1..Len(str) |-> LowerChar(str[i])]

RECURSIVE lstrip(_)
lstrip(str) == IF str # << >> /\ Head(str) \in Whitespace THEN lstrip(Tail(str)) ELSE str

RECURSIVE rstrip(_)
rstrip(str) ==
    IF str # << >> /\ str[Len(str)] \in Whitespace
    THEN rstrip(SubSeq(str, 1, Len(str) - 1))
    ELSE str

strip(str) == lstrip(rstrip(str))

\* `trigger_key = trigger.lower().strip()`
TriggerKey(trigger) == strip(lower(trigger))

EmptyBucket == [helpful_responses |-> << >>, unhelpful_responses |-> << >>]

RECURSIVE SumOver(_, _)
SumOver(f, ks) ==
    IF ks = {} THEN 0 ELSE LET k == CHOOSE x \in ks : TRUE IN f[k] + SumOver(f, ks \ {k})

\* the therapeutic entries a user's memory holds
PatternCount(memory) ==
    LET p == memory["therapeutic_patterns"]
    IN IF p.t # "dict" THEN 0
       ELSE SumOver([k \in DOMAIN p.d.triggers |->
                        Len(p.d.triggers[k].helpful_responses)
                        + Len(p.d.triggers[k].unhelpful_responses)],
                    DOMAIN p.d.triggers)

save_therapeutic_pattern(user_id, trigger, response, helpful) ==
    /\ PatternCount(MemoryOf(state, user_id)) < MaxPatterns
    /\ LET s1 == WithMemory(state, user_id)
           memory == s1["user_memories"][user_id]
           patterns == memory["therapeutic_patterns"]
           trigger_key == TriggerKey(trigger)
       IN IF patterns.t # "dict"
          THEN /\ state' = s1
               /\ ret' = Raised("TypeError")
          ELSE LET triggers == IF Has(patterns.d.triggers, trigger_key)
                               THEN patterns.d.triggers
                               ELSE Put(patterns.d.triggers, trigger_key, EmptyBucket)
                   entry == [response |-> response]
                   bucket == triggers[trigger_key]
                   bucket2 == IF helpful
                              THEN [bucket EXCEPT !.helpful_responses = Append(@, entry)]
                              ELSE [bucket EXCEPT !.unhelpful_responses = Append(@, entry)]
               IN /\ state' = PutMemory(s1, user_id,
                                 Put(memory, "therapeutic_patterns",
                                     Dict([patterns.d EXCEPT
                                             !.triggers = Put(triggers, trigger_key, bucket2)])))
                  /\ ret' = [msg |-> IF helpful THEN "marked_helpful" ELSE "marked_unhelpful",
                             trigger |-> trigger]
    /\ call' = <<"save_therapeutic_pattern", user_id, <<trigger, response, helpful>> >>
    /\ UNCHANGED <<created_log, pc, local>>

(********************************* agents **********************************)
(* An agent is its name, its tools= list, its sub_agents= list and its      *)
(* output_key.  Which tool the model behind an agent calls, with which      *)
(* arguments and how often, and which sub-agent it hands the turn to, is    *)
(* left open: any tool of the agent, any sub-agent of the agent.            *)
\* the variant gives the second stage the third stage's tool
AgentTools_SecondStageSaves(agent) ==
    IF agent \in {"pattern_analyzer", "insight_generator"} THEN {"save_to_memory"} ELSE {}

AgentTools(agent) ==
    CASE agent = "emotion_extractor" -> {}
      [] agent = "pattern_analyzer" -> {}
      [] agent = "insight_generator" -> {"save_to_memory"}
      [] agent = "personal_assistant" -> {"load_memory", "save_to_memory"}
      [] agent = "therapeutic_support" -> {"load_memory", "save_therapeutic_pattern"}
      [] agent = "task_manager" ->
            {"get_current_datetime", "create_task", "get_tasks", "schedule_reminder",
             "get_reminders", "get_all_items"}
      [] agent = "goal_refinement" ->
            {"create_goal_with_routine", "approve_goal", "get_goal", "list_goals",
             "update_goal_status", "get_current_datetime"}
      [] agent = "search_specialist" -> {"google_search"}
      [] OTHER -> {}

OutputKey(agent) ==
    CASE agent = "emotion_extractor" -> "emotion_data"
      [] agent = "pattern_analyzer" -> "patterns_found"
      [] agent = "insight_generator" -> "final_insight"

\* the variant runs the second stage first
journal_analysis_flow_Reordered ==
    <<"pattern_analyzer", "emotion_extractor", "insight_generator">>

\* SequentialAgent(name="journal_analyzer", sub_agents=[...])
journal_analysis_flow == <<"emotion_extractor", "pattern_analyzer", "insight_generator">>

SubAgents(agent) ==
    CASE agent = "personal_assistant" ->
            <<"therapeutic_support", "task_manager", "goal_refinement", "search_specialist">>
      [] agent = "journal_analyzer" -> journal_analysis_flow
      [] OTHER -> << >>

Range(seq) == {seq[i] : i \in 1..Len(seq)}

(************************* journal analysis pipeline ***********************)
(* One run of the SequentialAgent: its sub-agents one after the other.  A   *)
(* stage begins, its model may call the stage's tools, and the stage ends   *)
(* with its final text, stored under its output_key.                        *)
PipeIdle == [phase |-> "idle", user_id |-> "none", idx |-> 0, calls |-> 0, runs |-> 0]

Stage == journal_analysis_flow[pipe.idx]

pipeline_start(user_id) ==
    /\ pipe.phase \in {"idle", "done"}
    /\ pipe.runs < MaxRuns
    /\ pipe' = [phase |-> "ready", user_id |-> user_id, idx |-> 1, calls |-> 0,
                runs |-> pipe.runs + 1]
    /\ events' = << >>
    /\ UNCHANGED <<state, call, ret, created_log, pc, local, active, turn, llm, seen>>

stage_begin ==
    /\ pipe.phase = "ready"
    /\ pipe' = [pipe EXCEPT !.phase = "in_stage", !.calls = 0]
    /\ events' = Append(events, <<"start", Stage>>)
    /\ UNCHANGED <<state, call, ret, created_log, pc, local, active, turn, llm, seen>>

\* the stage's model calls save_to_memory as the instruction tells it to:
\* key "journal_entry", the value a text of its own
stage_save(value) ==
    /\ pipe.phase = "in_stage"
    /\ "save_to_memory" \in AgentTools(Stage)
    /\ pipe.calls < MaxStageCalls
    /\ save_to_memory(pipe.user_id, "journal_entry", value)
    /\ pipe' = [pipe EXCEPT !.calls = @ + 1]
    /\ events' = Append(events, <<"tool", Stage>>)
    /\ UNCHANGED <<active, turn, llm, seen>>

stage_end ==
    /\ pipe.phase = "in_stage"
    /\ state' = Put(state, OutputKey(Stage), "text")
    /\ events' = Append(events, <<"end", Stage>>)
    /\ pipe' = IF pipe.idx = Len(journal_analysis_flow)
               THEN [pipe EXCEPT !.phase = "done"]
               ELSE [pipe EXCEPT !.phase = "ready", !.idx = @ + 1]
    /\ UNCHANGED <<call, ret, created_log, pc, local, active, turn, llm, seen>>

PipelineStep == stage_begin \/ (\E v \in Values : stage_save(v)) \/ stage_end

(****************************** root dispatcher ****************************)
(* A turn: a user's message reaches root_agent; the model behind the active *)
(* agent calls tools of that agent or hands the turn to one of the agent's  *)
(* sub_agents; the turn ends with the active agent's reply.  Every tool     *)
(* reads the caller from tool_context.user_id; the other arguments are the  *)
(* model's.                                                                 *)
RootAgent == "personal_assistant"

AllTools ==
    {"load_memory", "save_to_memory", "save_therapeutic_pattern", "get_current_datetime",
     "create_task", "get_tasks", "schedule_reminder", "get_reminders", "get_all_items",
     "create_goal_with_routine", "approve_goal", "get_goal", "list_goals",
     "update_goal_status", "google_search"}

\* get_current_datetime and google_search read the clock and the web only
get_current_datetime ==
    /\ call' = <<"get_current_datetime", "none", << >> >>
    /\ ret' = [msg |-> "datetime"]
    /\ UNCHANGED <<state, created_log, pc, local>>

google_search ==
    /\ call' = <<"google_search", "none", << >> >>
    /\ ret' = [msg |-> "search"]
    /\ UNCHANGED <<state, created_log, pc, local>>

ToolCall(tool, caller) ==
    CASE tool = "load_memory" -> load_memory(caller)
      [] tool = "save_to_memory" -> save_to_memory(caller, "name", "v1")
      [] tool = "save_therapeutic_pattern" ->
            save_therapeutic_pattern(caller, <<"s", "t">>, "r1", TRUE)
      [] tool = "get_current_datetime" -> get_current_datetime
      [] tool = "create_task" -> create_task(caller, "t2", "", "medium")
      [] tool = "get_tasks" -> get_tasks(caller)
      [] tool = "schedule_reminder" -> schedule_reminder(caller, "r1", "2026-01-02", "09:00")
      [] tool = "get_reminders" -> get_reminders(caller)
      [] tool = "get_all_items" -> get_all_items(caller)
      [] tool = "create_goal_with_routine" ->
            \E i \in GoalInputs :
               create_goal_with_routine(caller, i[1], i[2], i[3], i[4], i[5], i[6])
      [] tool = "approve_goal" -> \E g \in GoalIds : approve_goal(caller, g)
      [] tool = "get_goal" -> \E g \in GoalIds : get_goal(caller, g)
      [] tool = "list_goals" -> list_goals(caller)
      [] tool = "update_goal_status" ->
            \E g \in GoalIds : update_goal_status(caller, g, "completed")
      [] tool = "google_search" -> google_search

inbound(user_id) ==
    /\ active = "none"
    /\ turn.turns < MaxTurns
    /\ active' = RootAgent
    /\ turn' = [user_id |-> user_id, turns |-> turn.turns + 1, calls |-> 0]
    /\ UNCHANGED <<state, call, ret, created_log, pc, local, pipe, events, llm, seen>>

agent_tool_call(tool) ==
    /\ active # "none"
    /\ tool \in AgentTools(active)
    /\ turn.calls < MaxTurnCalls
    /\ ToolCall(tool, turn.user_id)
    /\ turn' = [turn EXCEPT !.calls = @ + 1]
    /\ UNCHANGED <<pipe, events, active, llm, seen>>

delegate(agent) ==
    /\ active # "none"
    /\ agent \in Range(SubAgents(active))
    /\ active' = agent
    /\ UNCHANGED <<state, call, ret, created_log, pc, local, pipe, events, turn, llm, seen>>

reply ==
    /\ active # "none"
    /\ active' = "none"
    /\ UNCHANGED <<state, call, ret, created_log, pc, local, pipe, events, turn, llm, seen>>

(******************************* retry_config ******************************)
(* Every agent's Gemini model is built with retry_options=retry_config.  The *)
(* loop that applies the options belongs to the model client; here it is    *)
(* the loop the options describe: a request is attempted, a response with   *)
(* one of http_status_codes is retried after a wait while attempts remain,  *)
(* any other failure ends the request.                                      *)
retry_attempts == 5
exp_base == 2
initial_delay == 1

\* the variant also retries on 404
http_status_codes_With404 == {404, 429, 500, 503, 504}

http_status_codes == {429, 500, 503, 504}

\* the statuses a response may carry: success, the four above, two others
Statuses == {200, 400, 404, 429, 500, 503, 504}

LlmIdle == [phase |-> "idle", attempt |-> 0, status |-> 0, waits |-> << >>, calls |-> 0]

\* the wait before attempt n + 1
Delay(n) == initial_delay * exp_base ^ (n - 1)

model_call ==
    /\ llm.phase \in {"idle", "ok", "failed"}
    /\ llm.calls < MaxModelCalls
    /\ llm' = [phase |-> "calling", attempt |-> 1, status |-> 0, waits |-> << >>,
               calls |-> llm.calls + 1]
    /\ UNCHANGED <<state, call, ret, created_log, pc, local, pipe, events, active, turn, seen>>

response(status) ==
    /\ llm.phase = "calling"
    /\ llm' = IF status = 200
              THEN [llm EXCEPT !.phase = "ok", !.status = status]
              ELSE IF status \in http_status_codes /\ llm.attempt < retry_attempts
              THEN [llm EXCEPT !.phase = "waiting", !.status = status,
                               !.waits = Append(@, Delay(llm.attempt))]
              ELSE [llm EXCEPT !.phase = "failed", !.status = status]
    /\ UNCHANGED <<state, call, ret, created_log, pc, local, pipe, events, active, turn, seen>>

retry ==
    /\ llm.phase = "waiting"
    /\ llm' = [llm EXCEPT !.phase = "calling", !.attempt = @ + 1]
    /\ UNCHANGED <<state, call, ret, created_log, pc, local, pipe, events, active, turn, seen>>

(************** create_task / schedule_reminder, step by step **************)
(* The same two functions with a scheduling point before each access to    *)
(* tool_context.state: the membership test, the initialisation, the read   *)
(* of the length that builds the item, and the append.  Each user runs one *)
(* invocation at a time; nothing orders the steps of different users.      *)
InFlight(tool) == Cardinality({u \in Users : pc[u] \in {tool \o "_init", tool \o "_build", tool \o "_append"}})

\* `tasks.append(task)`: the item appended is the one built before
Appended_FreshId(items, item) == [item EXCEPT !.id = Len(items) + 1]

Appended(items, item) == item

ct_begin(user_id, title, due_date, priority) ==
    /\ pc[user_id] = "idle"
    /\ Len(ListOf(state, "tasks")) + InFlight("ct") < MaxTasks
    /\ pc' = [pc EXCEPT ![user_id] = IF Has(state, "tasks") THEN "ct_build" ELSE "ct_init"]
    /\ local' = [local EXCEPT ![user_id] =
                    [title |-> title, due_date |-> due_date, priority |-> priority]]
    /\ UNCHANGED <<state, call, ret, created_log, pipe, events, active, turn, llm, seen>>

ct_init(user_id) ==
    /\ pc[user_id] = "ct_init"
    /\ state' = Put(state, "tasks", << >>)
    /\ pc' = [pc EXCEPT ![user_id] = "ct_build"]
    /\ UNCHANGED <<call, ret, created_log, local, pipe, events, active, turn, llm, seen>>

ct_build(user_id) ==
    /\ pc[user_id] = "ct_build"
    /\ local' = [local EXCEPT ![user_id] =
                    [task |-> [id |-> NextId(state["tasks"]), user_id |-> user_id,
                               title |-> local[user_id].title,
                               due_date |-> local[user_id].due_date,
                               priority |-> local[user_id].priority,
                               completed |-> FALSE]]]
    /\ pc' = [pc EXCEPT ![user_id] = "ct_append"]
    /\ UNCHANGED <<state, call, ret, created_log, pipe, events, active, turn, llm, seen>>

ct_append(user_id) ==
    /\ pc[user_id] = "ct_append"
    /\ LET task == local[user_id].task
       IN /\ state' = Put(state, "tasks",
                          Append(state["tasks"], Appended(state["tasks"], task)))
          /\ created_log' = Append(created_log,
                 [user_id |-> user_id, title |-> task.title, due_date |-> task.due_date,
                  priority |-> task.priority])
          /\ call' = <<"create_task", user_id, <<task.title, task.due_date, task.priority>> >>
          /\ ret' = [msg |-> "task_created", title |-> task.title,
                     due |-> IF task.due_date # "" THEN task.due_date ELSE "none"]
    /\ pc' = [pc EXCEPT ![user_id] = "idle"]
    /\ local' = [local EXCEPT ![user_id] = NoRet]
    /\ UNCHANGED <<pipe, events, active, turn, llm, seen>>

sr_begin(user_id, title, date, time) ==
    /\ pc[user_id] = "idle"
    /\ Len(ListOf(state, "reminders")) + InFlight("sr") < MaxReminders
    /\ pc' = [pc EXCEPT ![user_id] = IF Has(state, "reminders") THEN "sr_build" ELSE "sr_init"]
    /\ local' = [local EXCEPT ![user_id] = [title |-> title, date |-> date, time |-> time]]
    /\ UNCHANGED <<state, call, ret, created_log, pipe, events, active, turn, llm, seen>>

sr_init(user_id) ==
    /\ pc[user_id] = "sr_init"
    /\ state' = Put(state, "reminders", << >>)
    /\ pc' = [pc EXCEPT ![user_id] = "sr_build"]
    /\ UNCHANGED <<call, ret, created_log, local, pipe, events, active, turn, llm, seen>>

sr_build(user_id) ==
    /\ pc[user_id] = "sr_build"
    /\ local' = [local EXCEPT ![user_id] =
                    [reminder |-> [id |-> NextId(state["reminders"]), user_id |-> user_id,
                                   title |-> local[user_id].title,
                                   date |-> local[user_id].date,
                                   time |-> local[user_id].time]]]
    /\ pc' = [pc EXCEPT ![user_id] = "sr_append"]
    /\ UNCHANGED <<state, call, ret, created_log, pipe, events, active, turn, llm, seen>>

sr_append(user_id) ==
    /\ pc[user_id] = "sr_append"
    /\ LET reminder == local[user_id].reminder
       IN /\ state' = Put(state, "reminders",
                          Append(state["reminders"], Appended(state["reminders"], reminder)))
          /\ call' = <<"schedule_reminder", user_id,
                       <<reminder.title, reminder.date, reminder.time>> >>
          /\ ret' = [msg |-> "reminder_set", title |-> reminder.title,
                     date |-> reminder.date, time |-> reminder.time]
    /\ pc' = [pc EXCEPT ![user_id] = "idle"]
    /\ local' = [local EXCEPT ![user_id] = NoRet]
    /\ UNCHANGED <<created_log, pipe, events, active, turn, llm, seen>>

(********************************* states **********************************)
Init ==
    /\ state = EmptyDict
    /\ call = NoCall
    /\ ret = NoRet
    /\ created_log = << >>
    /\ pc = [u \in Users |-> "idle"]
    /\ local = [u \in Users |-> NoRet]
    /\ pipe = PipeIdle
    /\ events = << >>
    /\ active = "none"
    /\ turn = [user_id |-> "none", turns |-> 0, calls |-> 0]
    /\ llm = LlmIdle
    /\ seen = << >>

(* Spec: the task tools, each call atomic, any mix of users. *)
TaskToolsNext ==
    \/ \E u \in Users, i \in TaskInputs : create_task(u, i[1], i[2], i[3]) /\ AgentsIdle
    \/ \E u \in Users : get_tasks(u) /\ AgentsIdle
    \/ \E u \in Users, i \in ReminderInputs :
          schedule_reminder(u, i[1], i[2], i[3]) /\ AgentsIdle
    \/ \E u \in Users : get_reminders(u) /\ AgentsIdle
    \/ \E u \in Users : get_all_items(u) /\ AgentsIdle

Spec == Init /\ [][TaskToolsNext]_vars

(* SpecGoals: the goal tools, each call atomic, any mix of users. *)
GoalToolsNext ==
    \/ \E u \in Users, i \in GoalInputs :
          create_goal_with_routine(u, i[1], i[2], i[3], i[4], i[5], i[6]) /\ AgentsIdle
    \/ \E u \in Users, g \in GoalIds : approve_goal(u, g) /\ AgentsIdle
    \/ \E u \in Users, g \in GoalIds : get_goal(u, g) /\ AgentsIdle
    \/ \E u \in Users : list_goals(u) /\ AgentsIdle
    \/ \E u \in Users, g \in GoalIds, s \in StatusInputs :
          update_goal_status(u, g, s) /\ AgentsIdle

SpecGoals == Init /\ [][GoalToolsNext]_vars

(* SpecStore: task and goal tools together, one input each, for the claims  *)
(* that span both collections.                                              *)
StoreItems ==
    Len(ListOf(state, "tasks")) + Len(ListOf(state, "reminders")) + Len(ListOf(state, "goals"))

StoreNext ==
    \/ \E u \in Users :
          /\ StoreItems < MaxItems
          /\ create_task(u, "t2", "", "medium")
          /\ AgentsIdle
    \/ \E u \in Users :
          /\ StoreItems < MaxItems
          /\ schedule_reminder(u, "r1", "2026-01-02", "09:00")
          /\ AgentsIdle
    \/ \E u \in Users : get_all_items(u) /\ AgentsIdle
    \/ \E u \in Users, i \in GoalInputs :
          /\ StoreItems < MaxItems
          /\ create_goal_with_routine(u, i[1], i[2], i[3], i[4], i[5], i[6])
          /\ AgentsIdle
    \/ \E u \in Users, g \in GoalIds : approve_goal(u, g) /\ AgentsIdle
    \/ \E u \in Users, g \in GoalIds : update_goal_status(u, g, "completed") /\ AgentsIdle

SpecStore == Init /\ [][StoreNext]_vars

(* SpecRace: create_task and schedule_reminder of different users, their    *)
(* steps interleaved.                                                       *)
RaceNext ==
    \/ \E u \in Users : ct_begin(u, "t2", "", "medium")
    \/ \E u \in Users : ct_init(u)
    \/ \E u \in Users : ct_build(u)
    \/ \E u \in Users : ct_append(u)
    \/ \E u \in Users : sr_begin(u, "r1", "2026-01-02", "09:00")
    \/ \E u \in Users : sr_init(u)
    \/ \E u \in Users : sr_build(u)
    \/ \E u \in Users : sr_append(u)

SpecRace == Init /\ [][RaceNext]_vars

(* SpecMemory: the memory tools, each call atomic, any mix of users. *)
MemoryToolsNext ==
    \/ \E u \in Users : load_memory(u) /\ AgentsIdle
    \/ \E u \in Users, k \in {"name", "therapeutic_patterns"} :
          save_to_memory(u, k, "v1") /\ AgentsIdle
    \/ \E u \in Users, t \in Triggers, h \in BOOLEAN :
          save_therapeutic_pattern(u, t, "r1", h) /\ AgentsIdle

SpecMemory == Init /\ [][MemoryToolsNext]_vars

(* SpecSave: save_to_memory with every kind of key, and load_memory.  "mood"  *)
(* is a key with no branch of its own; "personal_details" is one that names *)
(* a field of the memory.                                                   *)
SaveKeys == {"name", "interests", "preferences", "history", "mood", "personal_details"}

SaveNext ==
    \/ \E u \in Users : load_memory(u) /\ AgentsIdle
    \/ \E u \in Users, k \in SaveKeys \ {"mood"} : save_to_memory(u, k, "v1") /\ AgentsIdle
    \/ \E u \in Users, v \in Values : save_to_memory(u, "mood", v) /\ AgentsIdle

SpecSave == Init /\ [][SaveNext]_vars

(* SpecPipeline: runs of the journal pipeline, one at a time; between runs  *)
(* users add tasks and history entries through the other agents' tools.     *)
BetweenRuns == pipe.phase \in {"idle", "done"} /\ AgentsIdle

PipelineNext ==
    \/ \E u \in Users : pipeline_start(u)
    \/ stage_begin
    \/ \E v \in Values : stage_save(v)
    \/ stage_end
    \/ \E u \in Users : save_to_memory(u, "history", "v1") /\ BetweenRuns
    \/ \E u \in Users : create_task(u, "t2", "", "medium") /\ BetweenRuns

SpecPipeline == Init /\ [][PipelineNext]_vars

(* SpecRetry: requests to the external model under retry_config.  A request  *)
(* in flight gets a response (the client's timeout counts as one) and a     *)
(* wait ends.                                                               *)
RetryNext ==
    \/ model_call
    \/ \E status \in Statuses : response(status)
    \/ retry

SpecRetry ==
    /\ Init
    /\ [][RetryNext]_vars
    /\ WF_vars(\E status \in Statuses : response(status))
    /\ WF_vars(retry)

(* SpecIsolation: the memory tools next to the task, reminder and goal       *)
(* tools.  u1 saves different values.  `seen` may keep one call u2 made      *)
(* while u1 had no memory yet, with what u2 could see of the store before   *)
(* the call: the three collections and u2's own memory.                     *)
ViewOf(s, user_id) ==
    << ListOf(s, "tasks"), ListOf(s, "reminders"), ListOf(s, "goals"),
       IF Has(s, "user_memories") /\ Has(s["user_memories"], user_id)
       THEN <<s["user_memories"][user_id]>> ELSE << >> >>

HasMemory(s, user_id) == Has(s, "user_memories") /\ Has(s["user_memories"], user_id)

Observed ==
    /\ seen' \in (IF call'[2] = "u2" /\ seen = << >> /\ ~HasMemory(state, "u1")
                  THEN {seen, << [view |-> ViewOf(state, "u2"), call |-> call', ret |-> ret'] >>}
                  ELSE {seen})
    /\ UNCHANGED <<pipe, events, active, turn, llm>>

IsolationNext ==
    \/ \E v \in Values : save_to_memory("u1", "name", v) /\ Observed
    \/ save_to_memory("u2", "name", "v1") /\ Observed
    \/ \E u \in Users : load_memory(u) /\ Observed
    \/ save_therapeutic_pattern("u1", <<"s", "t">>, "r1", TRUE) /\ Observed
    \/ \E u \in Users :
          /\ StoreItems < MaxShared
          /\ create_task(u, "t2", "", "medium")
          /\ Observed
    \/ get_tasks("u2") /\ Observed
    \/ /\ StoreItems < MaxShared
       /\ schedule_reminder("u2", "r1", "2026-01-02", "09:00")
       /\ Observed
    \/ \E i \in GoalInputs :
          /\ StoreItems < MaxShared
          /\ create_goal_with_routine("u2", i[1], i[2], i[3], i[4], i[5], i[6])
          /\ Observed
    \/ approve_goal("u2", 1) /\ Observed
    \/ list_goals("u2") /\ Observed

SpecIsolation == Init /\ [][IsolationNext]_vars

(* SpecRoot: turns through root_agent *)
Agents ==
    {"personal_assistant", "therapeutic_support", "task_manager", "goal_refinement",
     "search_specialist", "journal_analyzer", "emotion_extractor", "pattern_analyzer",
     "insight_generator"}

RootNext ==
    \/ \E u \in Users : inbound(u)
    \/ \E tool \in AllTools : agent_tool_call(tool)
    \/ \E a \in Agents : delegate(a)
    \/ reply

SpecRoot == Init /\ [][RootNext]_vars

(********************************* claims **********************************)
\* the create_task calls of one user, in the order they were made
CreatedBy(u) == SelectSeq(created_log, LAMBDA c : c.user_id = u)

ExpectedLine(c) ==
    [title |-> c.title, priority |-> c.priority,
     due_info |-> IF c.due_date # "" THEN c.due_date ELSE "none"]

\* C1: whatever create_task calls the users made, get_tasks called by u returns
\* exactly the tasks u created, in the order u created them, under a header
\* whose count is their number (and the no-tasks message when u created none).
C1_GetTasksListsOwnInOrder ==
    call[1] = "get_tasks" =>
        LET mine == CreatedBy(call[2])
        IN IF mine = << >>
           THEN ret = [msg |-> "no_tasks"]
           ELSE /\ ret.msg = "tasks"
                /\ ret.count = Len(mine)
                /\ Len(ret.lines) = Len(mine)
                /\ \A i \in 1..Len(mine) : ret.lines[i] = ExpectedLine(mine[i])

\* C1 witness: u lists two tasks of its own while another user's task sits
\* between them in the store.
C1_Witness ==
    /\ call[1] = "get_tasks"
    /\ ret.msg = "tasks"
    /\ ret.count = 2
    /\ ret.lines[1].title # ret.lines[2].title
    /\ Len(state["tasks"]) = 3
    /\ state["tasks"][2].user_id # call[2]

IdsFollowPosition(items) == \A k \in 1..Len(items) : items[k].id = k

\* C2: with atomic tool calls the k-th task ever created has id k, whoever
\* created it, so ids are pairwise distinct; likewise the k-th reminder and
\* the k-th goal, each collection counting on its own.
C2_IdsAreCreationRanks ==
    /\ IdsFollowPosition(ListOf(state, "tasks"))
    /\ IdsFollowPosition(ListOf(state, "reminders"))
    /\ IdsFollowPosition(ListOf(state, "goals"))

\* C2 witness: two users' tasks interleave, the second task has id 2 although
\* it is its owner's first, and the reminder and the goal created meanwhile
\* each have id 1.
C2_Witness ==
    /\ Len(ListOf(state, "tasks")) = 2
    /\ state["tasks"][1].user_id # state["tasks"][2].user_id
    /\ state["tasks"][2].id = 2
    /\ Len(ListOf(state, "reminders")) = 1
    /\ state["reminders"][1].id = 1
    /\ Len(ListOf(state, "goals")) = 1
    /\ state["goals"][1].id = 1

\* the users other than u that have built an item with this id and not yet appended it
PendingWithId(at, field, u, id) ==
    {v \in Users \ {u} : pc[v] = at /\ local[v][field].id = id}

\* C3: nothing serialises the read of the length and the append.  An append
\* stores the id that was computed when the length was read, whatever was
\* appended since; so when two users' invocations both read the same length,
\* the first append leaves the other holding an id the store already uses,
\* and the second append stores it again.
C3_InterleavedCallsShareIds ==
    [][\A u \in Users :
         /\ ct_append(u) =>
               LET id == local[u].task.id
                   n == Len(state'["tasks"])
               IN /\ n = Len(state["tasks"]) + 1
                  /\ state'["tasks"][n].id = id
                  /\ state'["tasks"][n].user_id = u
                  /\ \A v \in PendingWithId("ct_append", "task", u, id) :
                        /\ pc'[v] = "ct_append"
                        /\ local'[v].task.id = state'["tasks"][n].id
         /\ sr_append(u) =>
               LET id == local[u].reminder.id
                   n == Len(state'["reminders"])
               IN /\ n = Len(state["reminders"]) + 1
                  /\ state'["reminders"][n].id = id
                  /\ state'["reminders"][n].user_id = u
                  /\ \A v \in PendingWithId("sr_append", "reminder", u, id) :
                        /\ pc'[v] = "sr_append"
                        /\ local'[v].reminder.id = state'["reminders"][n].id]_vars

\* C3 witness: on a store that was empty, two users' tasks both have id 1 and
\* id 2 is skipped; the same has happened to their reminders.
C3_Witness ==
    /\ Len(ListOf(state, "tasks")) = 2
    /\ state["tasks"][1].user_id # state["tasks"][2].user_id
    /\ state["tasks"][1].id = 1 /\ state["tasks"][2].id = 1
    /\ Len(ListOf(state, "reminders")) = 2
    /\ state["reminders"][1].user_id # state["reminders"][2].user_id
    /\ state["reminders"][1].id = 1 /\ state["reminders"][2].id = 1
    /\ \A u \in Users : pc[u] = "idle"

\* the claims' own reading of "differ only in letter case or surrounding
\* whitespace": trimmed first, then lowercased, character by character
Folded(str) ==
    LET inner == {i \in 1..Len(str) : str[i] # " "}
        first == CHOOSE i \in inner : \A j \in inner : i <= j
        last == CHOOSE i \in inner : \A j \in inner : j <= i
    IN IF inner = {} THEN << >>
       ELSE [i \in 1..(last - first + 1) |->
               IF str[first + i - 1] = "S" THEN "s"
               ELSE IF str[first + i - 1] = "T" THEN "t" ELSE str[first + i - 1]]

TriggersOf(s, u) == MemoryOf(s, u)["therapeutic_patterns"].d.triggers

BucketSize(triggers, k) ==
    IF Has(triggers, k)
    THEN Len(triggers[k].helpful_responses) + Len(triggers[k].unhelpful_responses)
    ELSE 0

\* C6: every save_therapeutic_pattern call appends its response to the bucket
\* keyed by the trigger lowercased and trimmed, creating that bucket when it
\* is absent, so triggers that differ only in case or surrounding whitespace
\* share one bucket; no other bucket changes and every key is in that form.
C6_TriggerBucketsNormalized ==
    [][\A u \in Users, t \in Triggers, h \in BOOLEAN :
         save_therapeutic_pattern(u, t, "r1", h) =>
            /\ MemoryOf(state', u)["therapeutic_patterns"].t = "dict"
            /\ LET before == IF MemoryOf(state, u)["therapeutic_patterns"].t = "dict"
                             THEN TriggersOf(state, u) ELSE EmptyDict
                   after == TriggersOf(state', u)
               IN /\ DOMAIN after = DOMAIN before \cup {Folded(t)}
                  /\ BucketSize(after, Folded(t)) = BucketSize(before, Folded(t)) + 1
                  /\ \A k \in DOMAIN before : k # Folded(t) => after[k] = before[k]
                  /\ \A k \in DOMAIN after : Folded(k) = k]_vars

\* C6 on the states where no save_to_memory call has replaced the user's
\* therapeutic_patterns by a string (the case C6_TriggerBucketsNormalized
\* fails on).
C6_OnIntactPatterns ==
    [][\A u \in Users, t \in Triggers, h \in BOOLEAN :
         (/\ MemoryOf(state, u)["therapeutic_patterns"].t = "dict"
          /\ save_therapeutic_pattern(u, t, "r1", h)) =>
            LET before == TriggersOf(state, u)
                after == TriggersOf(state', u)
            IN /\ DOMAIN after = DOMAIN before \cup {Folded(t)}
               /\ BucketSize(after, Folded(t)) = BucketSize(before, Folded(t)) + 1
               /\ \A k \in DOMAIN before : k # Folded(t) => after[k] = before[k]
               /\ \A k \in DOMAIN after : Folded(k) = k]_vars

\* " sT " was just saved and its response sits with an earlier one in the one
\* bucket "st"
C6_SharedBucketReached ==
    /\ call[1] = "save_therapeutic_pattern"
    /\ call[3][1] = <<" ", "s", "T", " ">>
    /\ ret.msg = "marked_helpful"
    /\ DOMAIN TriggersOf(state, call[2]) = {<<"s", "t">>}
    /\ BucketSize(TriggersOf(state, call[2]), <<"s", "t">>) = 2

\* the goals with this id owned by this user (at most one while ids are distinct)
OwnGoalIndexes(s, u, g) ==
    {i \in 1..Len(ListOf(s, "goals")) : s["goals"][i].id = g /\ s["goals"][i].user_id = u}

\* C4: approve_goal called again by the owner right after a successful
\* approve_goal of the same goal returns the success confirmation again and
\* leaves the goal approved and active, as after the first call.
C4_ApproveGoalIdempotent ==
    [][\A u \in Users, g \in GoalIds :
         (/\ call = <<"approve_goal", u, <<g>> >>
          /\ ret.msg = "goal_now_active"
          /\ approve_goal(u, g))
         => /\ ret'.msg = "goal_now_active"
            /\ state'["goals"] = state["goals"]
            /\ \A i \in OwnGoalIndexes(state', u, g) :
                  state'["goals"][i].approved /\ state'["goals"][i].status = "active"]_vars

\* C4 witness: the owner's approve_goal has just succeeded on a goal that sits
\* beside another user's goal.
C4_Witness ==
    /\ call[1] = "approve_goal"
    /\ ret.msg = "goal_now_active"
    /\ Len(state["goals"]) = 2
    /\ \E i \in OwnGoalIndexes(state, call[2], call[3][1]) :
          /\ state["goals"][i].approved
          /\ state["goals"][i].status = "active"
          /\ \E j \in 1..2 : state["goals"][j].user_id # call[2]

\* C5: update_goal_status by the owner always succeeds and overwrites the
\* status with the string given, whatever the goal's status and approved flag
\* were and whether or not the string is a documented status; approved and
\* every other goal stay as they were.
C5_UpdateStatusUnconditional ==
    [][\A u \in Users, g \in GoalIds, s \in StatusInputs :
         \A i \in OwnGoalIndexes(state, u, g) :
            update_goal_status(u, g, s)
            => /\ ret' = StatusMessage(s, state["goals"][i].title)
               /\ Len(state'["goals"]) = Len(state["goals"])
               /\ state'["goals"][i] = [state["goals"][i] EXCEPT !.status = s]
               /\ \A j \in 1..Len(state["goals"]) :
                     j # i => state'["goals"][j] = state["goals"][j]]_vars

\* C5 witness: a never-approved goal was force-set to completed and another to
\* a status outside the documented ones, the last call being such an update.
C5_Witness ==
    /\ call[1] = "update_goal_status"
    /\ ret.msg = "goal_status_updated"
    /\ Len(ListOf(state, "goals")) = 2
    /\ \E i, j \in 1..2 :
          /\ ~state["goals"][i].approved /\ state["goals"][i].status = "completed"
          /\ ~state["goals"][j].approved /\ state["goals"][j].status \notin GoalStatuses


(* ---- the journal pipeline ---- *)
IsStageEvent(e) == e[1] # "tool"

\* the starts and ends of stages in the current run, tool calls left out
StageEvents == SelectSeq(events, IsStageEvent)

ExpectedRun ==
    << <<"start", "emotion_extractor">>, <<"end", "emotion_extractor">>,
       <<"start", "pattern_analyzer">>, <<"end", "pattern_analyzer">>,
       <<"start", "insight_generator">>, <<"end", "insight_generator">> >>

Running == pipe.phase \in {"ready", "in_stage"}

StagesInOrder ==
    /\ Len(StageEvents) <= Len(ExpectedRun)
    /\ StageEvents = SubSeq(ExpectedRun, 1, Len(StageEvents))
    /\ pipe.phase = "done" => StageEvents = ExpectedRun
    /\ Running /\ pipe.phase = "ready" => Len(StageEvents) = 2 * (pipe.idx - 1)
    /\ pipe.phase = "in_stage" => Len(StageEvents) = 2 * pipe.idx - 1

\* the stages always finish: the framework runs each sub-agent to its final
\* response and then moves on
SpecPipelineFair == SpecPipeline /\ WF_vars(stage_begin) /\ WF_vars(stage_end)

History(s, user_id) == MemoryOf(s, user_id)["history"].l

\* C8: a save made by the third stage adds exactly one record to the calling
\* user's history, and is made before the stage's reply.
C8_ReflectionAddedToHistory ==
    [][(\E v \in Values : stage_save(v)) =>
          /\ Len(History(state', pipe.user_id)) = Len(History(state, pipe.user_id)) + 1
          /\ <<"end", "insight_generator">> \notin Range(events')]_vars

Slice(s, k) == IF Has(s, k) THEN <<s[k]>> ELSE << >>

UserMemory(s, user_id) ==
    IF Has(s, "user_memories") /\ Has(s["user_memories"], user_id)
    THEN <<s["user_memories"][user_id]>>
    ELSE << >>

\* C9: while a run is in its first or second stage no step changes tasks,
\* reminders, goals or any user's memory; while it is in its third stage no
\* step changes tasks, reminders, goals or another user's memory, and a step
\* that changes the store is a save_to_memory call of the run's user.
C9_OnlyFinalStageWrites ==
    [][Running =>
          /\ \A k \in {"tasks", "reminders", "goals"} : Slice(state', k) = Slice(state, k)
          /\ Stage \in {"emotion_extractor", "pattern_analyzer"} =>
                Slice(state', "user_memories") = Slice(state, "user_memories")
          /\ Stage = "insight_generator" =>
                /\ \A u \in Users \ {pipe.user_id} : UserMemory(state', u) = UserMemory(state, u)
                /\ Slice(state', "user_memories") # Slice(state, "user_memories") =>
                      /\ call'[1] = "save_to_memory"
                      /\ call'[2] = pipe.user_id]_vars

\* C9 witness: in the third stage of u1's run the reflection has been saved
\* to u1's memory, while the store holds a task and u2's one-entry history,
\* both older than the run
C9_Witness ==
    /\ pipe.phase = "in_stage"
    /\ Stage = "insight_generator"
    /\ pipe.user_id = "u1"
    /\ call = <<"save_to_memory", "u1", <<"journal_entry", "v1">> >>
    /\ Len(ListOf(state, "tasks")) = 1
    /\ UserMemory(state, "u1") # << >>
    /\ Has(UserMemory(state, "u1")[1], "journal_entry")
    /\ UserMemory(state, "u2") # << >>
    /\ Len(History(state, "u2")) = 1

(* ---- the root dispatcher ---- *)
\* C10: when a message has reached the root agent it can call load_memory or
\* save_to_memory, hand the turn to any of the four specialized agents, or
\* hand it to the journal pipeline.
C10_RootReachesPipeline ==
    (active = RootAgent /\ turn.calls = 0) =>
        /\ ENABLED agent_tool_call("load_memory")
        /\ ENABLED agent_tool_call("save_to_memory")
        /\ \A a \in {"therapeutic_support", "task_manager", "goal_refinement",
                     "search_specialist"} : ENABLED delegate(a)
        /\ ENABLED delegate("journal_analyzer")

\* what does hold at the root: the memory tools and the four specialized
\* agents, and no agent a turn can become active in is part of the pipeline
C10_RootWithoutPipeline ==
    /\ (active = RootAgent /\ turn.calls = 0) =>
          /\ ENABLED agent_tool_call("load_memory")
          /\ ENABLED agent_tool_call("save_to_memory")
          /\ \A a \in {"therapeutic_support", "task_manager", "goal_refinement",
                       "search_specialist"} : ENABLED delegate(a)
    /\ active \notin {"journal_analyzer"} \cup Range(journal_analysis_flow)


(* ---- memory tools: failures, return values, shape ---- *)
\* C11: no memory tool call ends in an exception, and every save_to_memory
\* call returns its confirmation for the key it was given.
C11_MemoryToolsNeverRaise ==
    /\ ret.msg # "raised"
    /\ call[1] = "save_to_memory" => ret = [msg |-> "saved", key |-> call[3][1]]

\* C17: whatever tool was called last, what it returned is a string, never a
\* mapping.
C17_ToolsReturnStrings == ret.msg # "dict"

StoredUsers(s) == IF Has(s, "user_memories") THEN DOMAIN s["user_memories"] ELSE {}

IsBucket(b) ==
    /\ DOMAIN b = {"helpful_responses", "unhelpful_responses"}
    /\ b.helpful_responses \in Seq({[response |-> "r1"]})
    /\ b.unhelpful_responses \in Seq({[response |-> "r1"]})

DeclaredShape(memory) ==
    /\ memory["personal_details"].t = "dict"
    /\ memory["preferences"].t = "dict"
    /\ memory["therapeutic_patterns"].t = "dict"
    /\ \A k \in DOMAIN memory["therapeutic_patterns"].d.triggers :
          IsBucket(memory["therapeutic_patterns"].d.triggers[k])
    /\ memory["history"].t = "list"
    /\ memory["interests"].t = "list"

\* C18: every stored memory has mappings under personal_details and
\* preferences, a record with trigger buckets under therapeutic_patterns, and
\* sequences under history and interests.
C18_MemoryKeepsShape ==
    \A u \in StoredUsers(state) : DeclaredShape(state["user_memories"][u])


(* ---- listings, lookups and ownership ---- *)
\* C12: a call of get_tasks, get_reminders, get_all_items, get_goal or
\* list_goals leaves the store exactly as it was, whether or not the
\* collections exist yet, and a caller with no tasks gets the no-tasks message.
C12_ListingsLeaveStoreAlone ==
    [][\A u \in Users :
          /\ (\/ get_tasks(u) \/ get_reminders(u) \/ get_all_items(u) \/ list_goals(u)
              \/ \E g \in GoalIds : get_goal(u, g)) => state' = state
          /\ (get_tasks(u) /\ OwnedBy(ListOf(state, "tasks"), u) = << >>) =>
                ret' = [msg |-> "no_tasks"]]_vars

Goals(s) == ListOf(s, "goals")

Owns(s, user_id, goal_id) ==
    \E i \in 1..Len(Goals(s)) : Goals(s)[i].id = goal_id /\ Goals(s)[i].user_id = user_id

NotFoundMessages == {"goal_not_found", "no_goals", "no_goals_to_approve"}

\* C13: approve_goal, update_goal_status and get_goal (the step's tool, caller
\* and id are those `call` holds after it) called with an id under
\* which the caller owns no goal return a not-found message and leave the
\* store as it was; whatever the id, the goals of other users stay as they
\* are, and get_goal shows a goal only to its owner.
C13_GoalToolsActOnOwnGoalsOnly ==
    [][call'[1] \in {"approve_goal", "get_goal", "update_goal_status"} =>
          LET u == call'[2]
              g == call'[3][1]
          IN /\ ~Owns(state, u, g) => (ret'.msg \in NotFoundMessages /\ state' = state)
             /\ Owns(state, u, g) => ret'.msg \notin NotFoundMessages
             /\ Len(Goals(state')) = Len(Goals(state))
             /\ \A i \in 1..Len(Goals(state)) :
                   Goals(state)[i].user_id # u => Goals(state')[i] = Goals(state)[i]]_vars

\* C13 witness: u2 has just tried to approve goal 1, which is u1's: not found,
\* and the goal is still pending; u2 owns goal 2
C13_Witness ==
    /\ call = <<"approve_goal", "u2", <<1>> >>
    /\ ret = [msg |-> "goal_not_found", goal_id |-> 1]
    /\ Len(Goals(state)) = 2
    /\ Goals(state)[1].user_id = "u1"
    /\ Goals(state)[1].status = "pending_approval"
    /\ ~Goals(state)[1].approved
    /\ Goals(state)[2].user_id = "u2"

\* C16: create_goal_with_routine adds one goal at the end, pending and not
\* approved, and changes no other; and a step after which a goal is approved
\* that was not approved before is an approve_goal call on that goal by its
\* owner.  No goal exists at the start, so an approved goal has been approved
\* by its owner.
C16_ApprovedOnlyByOwnersApproval ==
    [][/\ \A u \in Users, i \in GoalInputs :
             create_goal_with_routine(u, i[1], i[2], i[3], i[4], i[5], i[6]) =>
                /\ Len(Goals(state')) = Len(Goals(state)) + 1
                /\ SubSeq(Goals(state'), 1, Len(Goals(state))) = Goals(state)
                /\ Goals(state')[Len(Goals(state'))].status = "pending_approval"
                /\ Goals(state')[Len(Goals(state'))].approved = FALSE
                /\ Goals(state')[Len(Goals(state'))].user_id = u
       /\ \A k \in 1..Len(Goals(state')) :
             (Goals(state')[k].approved /\ (k > Len(Goals(state)) \/ ~Goals(state)[k].approved))
                => /\ call' = <<"approve_goal", Goals(state')[k].user_id, <<Goals(state')[k].id>> >>
                   /\ ret'.msg = "goal_now_active"]_vars

\* C16 witness: goal 1 was approved by its owner; goal 2 was set to active
\* through update_goal_status and is still not approved
C16_Witness ==
    /\ Len(Goals(state)) = 2
    /\ Goals(state)[1].approved
    /\ Goals(state)[1].status = "active"
    /\ Goals(state)[2].status = "active"
    /\ ~Goals(state)[2].approved

Tasks(s) == ListOf(s, "tasks")

\* C19: no step shortens the task list or changes a task already in it, and
\* every task carries its creator's user_id, title, due_date and priority,
\* its position as id, and completed = false.
C19_TasksNeverChange ==
    [][/\ Len(Tasks(state')) >= Len(Tasks(state))
       /\ SubSeq(Tasks(state'), 1, Len(Tasks(state))) = Tasks(state)
       /\ Len(Tasks(state')) = Len(created_log')
       /\ \A k \in 1..Len(Tasks(state')) :
             Tasks(state')[k] = [id |-> k, user_id |-> created_log'[k].user_id,
                                 title |-> created_log'[k].title,
                                 due_date |-> created_log'[k].due_date,
                                 priority |-> created_log'[k].priority,
                                 completed |-> FALSE]]_vars

\* C19 witness: two tasks of different users are in place while a goal has
\* been approved and the items have been listed since
C19_Witness ==
    /\ Len(Tasks(state)) = 2
    /\ Tasks(state)[1].user_id # Tasks(state)[2].user_id
    /\ Len(Goals(state)) = 1
    /\ Goals(state)[1].approved
    /\ call[1] = "get_all_items"


(* ---- save_to_memory routing, load_memory ---- *)
\* the field of the memory a key is routed to
RoutedField(key) ==
    CASE key = "name" -> "personal_details"
      [] OTHER -> key

\* C14: save_to_memory(key, value) by u returns its confirmation and leaves
\* u's memory as it was but for one field: "name" puts the value under name
\* in the personal_details mapping, "preferences" puts it under general in
\* the preferences mapping, "interests" and "history" append it to their
\* sequences, and any other key stores the value as the top-level field of
\* that name; other users' memories are untouched.
C14_SaveRoutesByKey ==
    [][\A u \in Users, key \in SaveKeys, value \in Values :
          save_to_memory(u, key, value) =>
             LET before == MemoryOf(state, u)
                 after == MemoryOf(state', u)
                 field == RoutedField(key)
             IN /\ ret' = [msg |-> "saved", key |-> key]
                /\ DOMAIN after = DOMAIN before \cup {field}
                /\ \A f \in DOMAIN before \ {field} : after[f] = before[f]
                /\ \A w \in Users \ {u} : UserMemory(state', w) = UserMemory(state, w)
                /\ CASE key = "name" ->
                           /\ before[field].t = "dict"
                           /\ after[field] = Dict(Put(before[field].d, "name", value))
                     [] key = "preferences" ->
                           after[field] = Dict(Put(before[field].d, "general", value))
                     [] key \in {"interests", "history"} ->
                           after[field] = List(Append(before[field].l, value))
                     [] OTHER -> after[field] = Str(value)]_vars

\* the routing on the calls C14_SaveRoutesByKey fails for excluded: where
\* personal_details is still a mapping every call routes as stated
C14_RoutesWhileDetailsIntact ==
    [][\A u \in Users, key \in SaveKeys, value \in Values :
          (save_to_memory(u, key, value) /\ MemoryOf(state, u)["personal_details"].t = "dict") =>
             LET before == MemoryOf(state, u)
                 after == MemoryOf(state', u)
                 field == RoutedField(key)
             IN /\ ret' = [msg |-> "saved", key |-> key]
                /\ DOMAIN after = DOMAIN before \cup {field}
                /\ \A f \in DOMAIN before \ {field} : after[f] = before[f]
                /\ CASE key = "name" ->
                           after[field] = Dict(Put(before[field].d, "name", value))
                     [] key = "preferences" ->
                           after[field] = Dict(Put(before[field].d, "general", value))
                     [] key \in {"interests", "history"} ->
                           after[field] = List(Append(before[field].l, value))
                     [] OTHER -> after[field] = Str(value)]_vars

IsDefaultMemory(memory) ==
    /\ DOMAIN memory =
          {"personal_details", "preferences", "therapeutic_patterns", "history", "interests"}
    /\ memory["personal_details"] = Dict(EmptyDict)
    /\ memory["preferences"] = Dict(EmptyDict)
    /\ memory["therapeutic_patterns"].d.triggers = EmptyDict
    /\ memory["therapeutic_patterns"].d.preferred_styles = << >>
    /\ memory["therapeutic_patterns"].d.avoided_styles = << >>
    /\ memory["history"] = List(<< >>)
    /\ memory["interests"] = List(<< >>)

\* C15: load_memory by a user without a memory stores the default empty
\* memory for that user and returns it; by a user with a memory it leaves the
\* store as it was and returns that memory (so a second call in a row changes
\* nothing); other users' memories are never touched.
C15_LoadCreatesOnceAndKeeps ==
    [][\A u \in Users :
          load_memory(u) =>
             /\ UserMemory(state, u) = << >> =>
                   /\ UserMemory(state', u) # << >>
                   /\ IsDefaultMemory(UserMemory(state', u)[1])
             /\ UserMemory(state, u) # << >> => state' = state
             /\ ret' = [msg |-> "dict", user_id |-> u, memory |-> UserMemory(state', u)[1]]
             /\ \A w \in Users \ {u} : UserMemory(state', w) = UserMemory(state, w)]_vars

\* C15 witness: u1 loads a memory that holds a saved name and a trigger bucket
\* and gets them back, while u2 has a memory too
C15_Witness ==
    /\ call[1] = "load_memory"
    /\ call[2] = "u1"
    /\ ret.msg = "dict"
    /\ ret.memory["personal_details"] = Dict(Put(EmptyDict, "name", "v1"))
    /\ ret.memory["therapeutic_patterns"].t = "dict"
    /\ Has(ret.memory["therapeutic_patterns"].d.triggers, <<"s", "t">>)
    /\ UserMemory(state, "u1") = <<ret.memory>>
    /\ UserMemory(state, "u2") # << >>


(* ---- the retry policy ---- *)
RetryBounded ==
    /\ llm.attempt <= 5
    /\ Len(llm.waits) = (IF llm.phase = "idle" THEN 0
                         ELSE IF llm.phase = "waiting" THEN llm.attempt ELSE llm.attempt - 1)
    /\ llm.waits = SubSeq(<<1, 2, 4, 8>>, 1, Len(llm.waits))
    /\ llm.phase = "waiting" => llm.status \in {429, 500, 503, 504}
    /\ llm.phase = "ok" => llm.status = 200
    /\ llm.phase = "failed" =>
          \/ llm.status \notin {200, 429, 500, 503, 504}
          \/ llm.status \in {429, 500, 503, 504} /\ llm.attempt = 5

\* C20: a request is attempted at most 5 times, each further attempt follows
\* a 429, 500, 503 or 504, the waits before the attempts are 1, 2, 4 and 8
\* seconds, a request fails for good on any other status or on a retryable
\* one at the fifth attempt, and a request under way ends in success or
\* failure.
C20_RetryBoundedAndEnds ==
    ([]RetryBounded) /\ ((llm.phase = "calling") ~> (llm.phase \in {"ok", "failed"}))

\* C20 witness: the fifth attempt ended in 503 after waits of 1, 2, 4 and 8
C20_Witness ==
    /\ llm.phase = "failed"
    /\ llm.attempt = 5
    /\ llm.status = 503
    /\ llm.waits = <<1, 2, 4, 8>>


(* ---- what a goal is shown as, and its approved flag ---- *)
\* the caller's goals in store order, as the listing walks them
GoalsOf(s, user_id) == SelectSeq(Goals(s), LAMBDA g : g.user_id = user_id)

\* C21: a goal that get_goal has just shown is shown as Active when its
\* approved flag is set and as Pending Approval when it is not, and every
\* line list_goals has just returned says Active when that goal's approved
\* flag is set and Pending when it is not, whatever the goals' status fields
\* hold.  (The lookups leave the store alone, so the goals are those shown.)
C21_ShownStateFollowsApproved ==
    /\ (call[1] = "get_goal" /\ ret.msg = "goal") =>
          \E i \in 1..Len(Goals(state)) :
             /\ Goals(state)[i].id = ret.goal_id
             /\ Goals(state)[i].user_id = call[2]
             /\ ret.status_text = (IF Goals(state)[i].approved THEN "Active"
                                   ELSE "Pending Approval")
    /\ (call[1] = "list_goals" /\ ret.msg = "goals") =>
          /\ Len(ret.lines) = Len(GoalsOf(state, call[2]))
          /\ \A k \in 1..Len(ret.lines) :
                ret.lines[k].status_text = (IF GoalsOf(state, call[2])[k].approved THEN "Active"
                                            ELSE "Pending")

\* C21 witness: u1's listing shows goal 1, approved and since completed, as
\* Active, and goal 2, set to active without approval, as Pending
C21_Witness ==
    /\ call = <<"list_goals", "u1", << >> >>
    /\ ret.msg = "goals"
    /\ Len(ret.lines) = 2
    /\ Goals(state)[1].approved /\ Goals(state)[1].status = "completed"
    /\ ret.lines[1].status_text = "Active"
    /\ ~Goals(state)[2].approved /\ Goals(state)[2].status = "active"
    /\ ret.lines[2].status_text = "Pending"

\* C22: no step clears the approved flag of a goal, and an approve_goal call
\* by a goal's owner leaves the goal approved with status active whatever its
\* status was before.
C22_ApprovedStaysAndApproveResets ==
    [][/\ Len(Goals(state')) >= Len(Goals(state))
       /\ \A k \in 1..Len(Goals(state)) :
             /\ Goals(state)[k].approved => Goals(state')[k].approved
             /\ (/\ call'[1] = "approve_goal"
                 /\ call'[2] = Goals(state)[k].user_id
                 /\ call'[3] = <<Goals(state)[k].id>>) =>
                   /\ Goals(state')[k].approved
                   /\ Goals(state')[k].status = "active"]_vars

\* C22 witness: an approved goal has since been set to completed and is still
\* approved; approving it again is what resets its status
C22_Witness ==
    /\ call = <<"update_goal_status", "u1", <<1, "completed">> >>
    /\ Len(Goals(state)) >= 1
    /\ Goals(state)[1].user_id = "u1"
    /\ Goals(state)[1].approved
    /\ Goals(state)[1].status = "completed"


(* ---- journal entries ---- *)
ToolEvents == SelectSeq(events, LAMBDA e : e[1] = "tool")

\* C24: a save_to_memory call with key "journal_entry" leaves the caller's
\* history as it was and leaves the value just saved as the caller's one
\* journal_entry, whatever was stored there before; so however many runs a
\* user has had, the memory holds the latest reflection only.
C24_JournalEntryReplaced ==
    [][(call'[1] = "save_to_memory" /\ call'[3][1] = "journal_entry") =>
          /\ History(state', call'[2]) = History(state, call'[2])
          /\ MemoryOf(state', call'[2])["journal_entry"] = Str(call'[3][2])
          /\ \A f \in DOMAIN MemoryOf(state, call'[2]) \ {"journal_entry"} :
                MemoryOf(state', call'[2])[f] = MemoryOf(state, call'[2])[f]]_vars

\* C24 witness: in u1's second run the third stage has saved twice; the
\* memory holds the second value, and the history its one older entry
C24_Witness ==
    /\ pipe.runs = 2
    /\ pipe.user_id = "u1"
    /\ Len(ToolEvents) = 2
    /\ call = <<"save_to_memory", "u1", <<"journal_entry", "v2">> >>
    /\ MemoryOf(state, "u1")["journal_entry"] = Str("v2")
    /\ History(state, "u1") = <<"v1">>


(* ---- isolation of the memories ---- *)
MemoryTools == {"load_memory", "save_to_memory", "save_therapeutic_pattern"}

\* C23: a memory tool call leaves every other user's memory and the tasks,
\* reminders and goals as they were; a call of any other tool leaves all
\* memories as they were; and a call by u2 returns what the same call
\* returned to u2 earlier, when u1 had saved nothing, provided the
\* collections and u2's own memory are what they were then.
C23_MemoriesIsolated ==
    [][/\ call'[1] \in MemoryTools =>
             /\ \A w \in Users \ {call'[2]} : UserMemory(state', w) = UserMemory(state, w)
             /\ \A k \in {"tasks", "reminders", "goals"} : Slice(state', k) = Slice(state, k)
       /\ call'[1] \notin MemoryTools =>
             \A w \in Users : UserMemory(state', w) = UserMemory(state, w)
       /\ (/\ seen # << >>
           /\ call' = seen[1].call
           /\ ViewOf(state, "u2") = seen[1].view) => ret' = seen[1].ret]_vars

\* C23 witness: u2 lists its tasks and gets what it got when u1 had no
\* memory; by now u1 has saved the name v2 and a trigger bucket, and u2's
\* memory and the task list are untouched by that
C23_Witness ==
    /\ seen # << >>
    /\ call = <<"get_tasks", "u2", << >> >>
    /\ seen[1].call = call
    /\ seen[1].ret = ret
    /\ ret.msg = "tasks"
    /\ seen[1].view = ViewOf(state, "u2")
    /\ seen[1].view[4] # << >>
    /\ HasMemory(state, "u1")
    /\ MemoryOf(state, "u1")["personal_details"] = Dict(Put(EmptyDict, "name", "v2"))
    /\ PatternCount(MemoryOf(state, "u1")) = 1

=============================================================================
